---- MODULE Spec2Model ----
(***************************************************************************)
(* A model of hinge-analyzer (src/src/main.rs): the ethnicity-bitmask to   *)
(* race classifier, the validation of a match-log record into a profile,   *)
(* and run_analysis: the two demographic baselines, the racial preference  *)
(* index and the conversation funnel.                                      *)
(***************************************************************************)
EXTENDS Integers, Sequences, FiniteSets, TLC

VARIABLES
    pc,                     \* position of run_analysis
    status,                 \* how the process stands: running, Ok, Err(..), panic(..)
    out,                    \* standard output, one entry per printed block or line
    line,                   \* rows the current csv reader has yielded (enumerate's i)
    record,                 \* the item the current reader yielded last
    race_weights,           \* HashMap<Race, f64>, all eight races
    hispanic_race_weights,  \* HashMap<Race, f64>, seven races (no Hispanic)
    profiles,               \* Vec<HingeProfile>
    race_counts,            \* HashMap<Race, u32>
    hispanic_race_counts,   \* HashMap<Race, u32>
    racial_preferences,     \* Vec<RacialPreference>
    tally,                  \* the eight funnel counters and the loop index
    metrics,                \* the derived funnel ratios
    arg,                    \* argument of the conversion under test
    ret                     \* what the conversion returned

vars == << pc, status, out, line, record, race_weights, hispanic_race_weights,
           profiles, race_counts, hispanic_race_counts, racial_preferences,
           tally, metrics, arg, ret >>

-----------------------------------------------------------------------------
(* Bounds of the model.                                                    *)

MaxDemoRows == 2

MaxMatchRows == 3

MaxIndexRows == 4

-----------------------------------------------------------------------------
(* EthnicityBits = u16 and the flag constants of Ethnicities.              *)

EthnicityBitsWidth == 16

NATIVE_AMERICAN == 1

SOUTHEAST_ASIAN == 2

BLACK_AFRICAN_DESCENT == 4

EAST_ASIAN == 8

HISPANIC_LATINO == 16

MIDDLE_EASTERN == 32

PACIFIC_ISLANDER == 64

SOUTH_ASIAN == 128

WHITE_CAUCASIAN == 256

OTHER_ETHNICITY == 32768

AllBits == 2^EthnicityBitsWidth - 1

RECURSIVE BitAndN(_, _, _)
BitAndN(a, b, w) ==
    IF w = 0 THEN 0
    ELSE (a % 2) * (b % 2) + 2 * BitAndN(a \div 2, b \div 2, w - 1)

\* a & b on u16
BitAnd(a, b) == BitAndN(a, b, EthnicityBitsWidth)

\* a | b on u16
BitOr(a, b) == a + b - BitAnd(a, b)

\* !a on u16
BitNot(a) == AllBits - a

-----------------------------------------------------------------------------
(* enum Race, enum WhoLastReplied.                                         *)

Races ==
    << "WhiteCaucasian", "BlackAfrican", "NativeAmerican", "Asian",
       "PacificIslander", "Multiracial", "Hispanic", "Other" >>

RaceSet == { Races[i] : i \in 1..Len(Races) }

HispanicRaceSet == RaceSet \ {"Hispanic"}

WhoLastReplied == {"You", "Them", "Met", "None"}

ErrEmpty == "Ethnicity is empty"

ErrUnsupported ==
    "Ethnicity only contains values that are not supported to be converted to a race distinction"

ASIAN_RACE_ETHNICITIES == BitOr(BitOr(SOUTHEAST_ASIAN, SOUTH_ASIAN), EAST_ASIAN)

UNSUPPORTED_ETHNICITIES == MIDDLE_EASTERN

\* RaceFallThrough without the HISPANIC_LATINO test.
RaceFallThroughNoHispanic(bits_ignore_not_supported) ==
    IF BitAnd(bits_ignore_not_supported, ASIAN_RACE_ETHNICITIES)
           = bits_ignore_not_supported
    THEN "Asian"
    ELSE "Multiracial"

\* The fall-through arm of the match in Race::try_from.
RaceFallThrough(bits_ignore_not_supported) ==
    IF BitAnd(bits_ignore_not_supported, ASIAN_RACE_ETHNICITIES)
           = bits_ignore_not_supported
    THEN "Asian"
    ELSE IF BitAnd(bits_ignore_not_supported, HISPANIC_LATINO) # 0
    THEN "Hispanic"
    ELSE "Multiracial"

\* The match on bits_ignore_not_supported in Race::try_from.
RaceMatch(bits_ignore_not_supported) ==
    CASE bits_ignore_not_supported = 0 -> ErrUnsupported
      [] bits_ignore_not_supported = NATIVE_AMERICAN -> "NativeAmerican"
      [] bits_ignore_not_supported = SOUTHEAST_ASIAN -> "Asian"
      [] bits_ignore_not_supported = BLACK_AFRICAN_DESCENT -> "BlackAfrican"
      [] bits_ignore_not_supported = EAST_ASIAN -> "Asian"
      [] bits_ignore_not_supported = PACIFIC_ISLANDER -> "PacificIslander"
      [] bits_ignore_not_supported = SOUTH_ASIAN -> "Asian"
      [] bits_ignore_not_supported = WHITE_CAUCASIAN -> "WhiteCaucasian"
      [] bits_ignore_not_supported = HISPANIC_LATINO -> "Hispanic"
      [] bits_ignore_not_supported = OTHER_ETHNICITY -> "Other"
      [] OTHER -> RaceFallThrough(bits_ignore_not_supported)

\* impl TryFrom<Ethnicities> for Race: Ok(race) is the race's name, Err(msg) is msg.
RaceTryFrom(bits) ==
    IF bits = 0 THEN ErrEmpty
    ELSE RaceMatch(BitAnd(bits, BitNot(UNSUPPORTED_ETHNICITIES)))

\* Result::ok(): Some(race) is the race's name, None is "None".
ResultOk(r) == IF r \in RaceSet THEN r ELSE "None"

\* The filter of hispanic_race_counts: the profile carries HISPANIC_LATINO.
HispanicFilter(bits) == BitAnd(bits, HISPANIC_LATINO) # 0

\* HispanicSubBits without the arm for a purely Hispanic profile.
HispanicSubBitsNoOther(bits) == BitAnd(bits, BitNot(HISPANIC_LATINO))

\* The map of hispanic_race_counts: the bits that are classified as the sub-race.
HispanicSubBits(bits) ==
    IF bits = HISPANIC_LATINO THEN OTHER_ETHNICITY
    ELSE BitAnd(bits, BitNot(HISPANIC_LATINO))

\* The filter_map of hispanic_race_counts.
HispanicSubRace(bits) == ResultOk(RaceTryFrom(HispanicSubBits(bits)))

-----------------------------------------------------------------------------
(* HingeProfileCSVRecord -> HingeProfile.                                  *)

EthnicityFields ==
    << "native_american", "southeast_asian", "black_african_descent",
       "east_asian", "hispanic_latino", "middle_eastern", "pacific_islander",
       "south_asian", "white_caucasian", "other" >>

EthnicityFieldBit ==
    << NATIVE_AMERICAN, SOUTHEAST_ASIAN, BLACK_AFRICAN_DESCENT, EAST_ASIAN,
       HISPANIC_LATINO, MIDDLE_EASTERN, PACIFIC_ISLANDER, SOUTH_ASIAN,
       WHITE_CAUCASIAN, OTHER_ETHNICITY >>

RECURSIVE EthnicityOfFrom(_, _)
EthnicityOfFrom(value, i) ==
    IF i > Len(EthnicityFields) THEN 0
    ELSE BitOr(IF value[EthnicityFields[i]] # 0 THEN EthnicityFieldBit[i] ELSE 0,
               EthnicityOfFrom(value, i + 1))

\* The Ethnicities the record's ten indicator columns build.
EthnicityOf(value) == EthnicityOfFrom(value, 1)

ErrReply == "Invalid value for Who Last Replied"

ErrMet == "Who Last Replied is Met but Conversation is False"

ErrNone == "Who Last Replied is None but Conversation is True"

\* ProfileCheck without the check of None against convo.
ProfileCheckNoNone(value) ==
    IF value.last_reply = "Met" /\ value.convo = 0 THEN ErrMet
    ELSE "Ok"

\* ProfileCheck without the check of Met against convo.
ProfileCheckNoMet(value) ==
    IF value.last_reply = "None" /\ value.convo # 0 THEN ErrNone
    ELSE "Ok"

\* The two consistency checks of HingeProfile::try_from.
ProfileCheck(value) ==
    IF value.last_reply = "Met" /\ value.convo = 0 THEN ErrMet
    ELSE IF value.last_reply = "None" /\ value.convo # 0 THEN ErrNone
    ELSE "Ok"

\* ProfileOf with a failed classification turned into Race::Other.
ProfileOfDefaultOther(value) ==
    LET ethnicity == EthnicityOf(value) IN
    [ matched |-> value.matched # 0,
      convo |-> value.convo # 0,
      who_last_replied |-> value.last_reply,
      ethnicity_specified |-> value.specified # 0,
      ethnicity |-> ethnicity,
      race |-> IF RaceTryFrom(ethnicity) \in RaceSet
               THEN RaceTryFrom(ethnicity) ELSE "Other" ]

\* The HingeProfile built from a record that passed the checks.
ProfileOf(value) ==
    LET ethnicity == EthnicityOf(value) IN
    [ matched |-> value.matched # 0,
      convo |-> value.convo # 0,
      who_last_replied |-> value.last_reply,
      ethnicity_specified |-> value.specified # 0,
      ethnicity |-> ethnicity,
      race |-> ResultOk(RaceTryFrom(ethnicity)) ]

\* impl TryFrom<HingeProfileCSVRecord> for HingeProfile.
HingeProfileTryFrom(value) ==
    IF value.last_reply \notin WhoLastReplied
    THEN [ok |-> FALSE, err |-> ErrReply, profile |-> << >>]
    ELSE IF ProfileCheck(value) # "Ok"
    THEN [ok |-> FALSE, err |-> ProfileCheck(value), profile |-> << >>]
    ELSE [ok |-> TRUE, err |-> "", profile |-> ProfileOf(value)]

-----------------------------------------------------------------------------
(* f64.  A value is a non-negative extended rational n/d in lowest terms:  *)
(* d > 0 is a finite number, 1/0 is +infinity and 0/0 is NaN.  Every f64   *)
(* of run_analysis comes from u32 counts by +, * and /, so no value is     *)
(* negative; rounding is not modelled.                                     *)

RECURSIVE GCD(_, _)
GCD(a, b) == IF b = 0 THEN a ELSE GCD(b, a % b)

FNorm(n, d) ==
    IF d = 0 THEN [n |-> IF n = 0 THEN 0 ELSE 1, d |-> 0]
    ELSE [n |-> n \div GCD(n, d), d |-> d \div GCD(n, d)]

FNaN == [n |-> 0, d |-> 0]

FInf == [n |-> 1, d |-> 0]

\* `k as f64`
FInt(k) == [n |-> k, d |-> 1]

FZero == FInt(0)

IsNaN(x) == x.d = 0 /\ x.n = 0

IsInf(x) == x.d = 0 /\ x.n # 0

IsFinite(x) == x.d # 0

FAdd(x, y) ==
    IF IsNaN(x) \/ IsNaN(y) THEN FNaN
    ELSE IF IsInf(x) \/ IsInf(y) THEN FInf
    ELSE FNorm(x.n * y.d + y.n * x.d, x.d * y.d)

FMul(x, y) ==
    IF IsNaN(x) \/ IsNaN(y) THEN FNaN
    ELSE IF IsInf(x) \/ IsInf(y)
    THEN (IF x = FZero \/ y = FZero THEN FNaN ELSE FInf)
    ELSE FNorm(x.n * y.n, x.d * y.d)

FDiv(x, y) ==
    IF IsNaN(x) \/ IsNaN(y) THEN FNaN
    ELSE IF IsInf(x) THEN (IF IsInf(y) THEN FNaN ELSE FInf)
    ELSE IF IsInf(y) THEN FZero
    ELSE FNorm(x.n * y.d, x.d * y.n)

\* f64::partial_cmp: None when either side is NaN.
PartialCmp(x, y) ==
    IF IsNaN(x) \/ IsNaN(y) THEN "None"
    ELSE IF x = y THEN "Equal"
    ELSE IF IsInf(x) THEN "Greater"
    ELSE IF IsInf(y) THEN "Less"
    ELSE IF x.n * y.d < y.n * x.d THEN "Less" ELSE "Greater"

RECURSIVE FSumFrom(_, _)
FSumFrom(s, i) == IF i > Len(s) THEN FZero ELSE FAdd(s[i], FSumFrom(s, i + 1))

\* Iterator::sum::<f64>() over a sequence of values.
FSum(s) == FSumFrom(s, 1)

\* values().sum::<f64>() of a map (the sum of non-negative values, NaN and
\* infinity included, does not depend on the iteration order).
FSumMap(m, keys) == FSum([i \in 1..Len(keys) |-> m[keys[i]]])

-----------------------------------------------------------------------------
(* The rows the three csv readers yield.  A row is [ok, v]: ok = FALSE is  *)
(* a row serde could not deserialize (v is then never read).               *)

\* CountyDemographicsCSVRecord (the county label is never read).
DemographicsRecord(white, black, native, asian, pacific, other, multi, hispanic) ==
    [ white_alone |-> white,
      black_african_american_alone |-> black,
      american_indian_alaska_native_alone |-> native,
      asian_alone |-> asian,
      native_hawaiian_pacific_islander_alone |-> pacific,
      some_other_race_alone |-> other,
      two_or_more_races |-> multi,
      hispanic_latino |-> hispanic ]

\* CountyHispanicDemographicsCSVRecord.
HispanicDemographicsRecord(white, black, native, asian, pacific, other, multi) ==
    [ white_hispanic |-> white,
      black_african_american_hispanic |-> black,
      american_indian_alaska_native_hispanic |-> native,
      asian_hispanic |-> asian,
      native_hawaiian_pacific_islander_hispanic |-> pacific,
      some_other_race_hispanic |-> other,
      two_or_more_races_hispanic |-> multi ]

\* HingeProfileCSVRecord (the name is never read); flags are the indicator
\* columns set to 1.
HingeProfileCSVRecord(matched, convo, last_reply, specified, flags) ==
    [ matched |-> matched,
      convo |-> convo,
      last_reply |-> last_reply,
      specified |-> specified,
      native_american |-> IF "native_american" \in flags THEN 1 ELSE 0,
      southeast_asian |-> IF "southeast_asian" \in flags THEN 1 ELSE 0,
      black_african_descent |-> IF "black_african_descent" \in flags THEN 1 ELSE 0,
      east_asian |-> IF "east_asian" \in flags THEN 1 ELSE 0,
      hispanic_latino |-> IF "hispanic_latino" \in flags THEN 1 ELSE 0,
      middle_eastern |-> IF "middle_eastern" \in flags THEN 1 ELSE 0,
      pacific_islander |-> IF "pacific_islander" \in flags THEN 1 ELSE 0,
      south_asian |-> IF "south_asian" \in flags THEN 1 ELSE 0,
      white_caucasian |-> IF "white_caucasian" \in flags THEN 1 ELSE 0,
      other |-> IF "other" \in flags THEN 1 ELSE 0 ]

Good(v) == [ok |-> TRUE, v |-> v]

Malformed(v) == [ok |-> FALSE, v |-> v]

\* Rows of demographics.csv: a malformed row, a county with people, an empty county.
DemographicsRows ==
    { Malformed(DemographicsRecord(0, 0, 0, 0, 0, 0, 0, 0)),
      Good(DemographicsRecord(4, 2, 0, 1, 0, 0, 0, 1)),
      Good(DemographicsRecord(0, 0, 0, 0, 0, 0, 0, 0)) }

\* Rows of hispanic_demographics.csv.
HispanicDemographicsRows ==
    { Malformed(HispanicDemographicsRecord(0, 0, 0, 0, 0, 0, 0)),
      Good(HispanicDemographicsRecord(2, 1, 0, 0, 0, 1, 0)),
      Good(HispanicDemographicsRecord(0, 0, 0, 0, 0, 0, 0)) }

\* Rows of matches.csv: a malformed row, the three ways a record fails
\* HingeProfile::try_from, and records of each funnel bucket with
\* classifiable, unclassifiable and Hispanic ethnicities.
MatchRows ==
    { Malformed(HingeProfileCSVRecord(0, 0, "None", 0, {})),
      Good(HingeProfileCSVRecord(1, 1, "Maybe", 1, {"white_caucasian"})),
      Good(HingeProfileCSVRecord(1, 0, "Met", 1, {"white_caucasian"})),
      Good(HingeProfileCSVRecord(1, 1, "None", 1, {"hispanic_latino"})),
      Good(HingeProfileCSVRecord(1, 1, "Met", 1, {"white_caucasian"})),
      Good(HingeProfileCSVRecord(1, 0, "None", 1, {"white_caucasian"})),
      Good(HingeProfileCSVRecord(1, 1, "You", 1, {"hispanic_latino", "black_african_descent"})),
      Good(HingeProfileCSVRecord(1, 0, "You", 1, {"hispanic_latino"})),
      Good(HingeProfileCSVRecord(1, 1, "Them", 0, {})),
      Good(HingeProfileCSVRecord(1, 0, "Them", 1, {"middle_eastern"})),
      Good(HingeProfileCSVRecord(1, 2, "Them", 1, {"hispanic_latino", "middle_eastern"})) }

\* Rows of a matches.csv in which every row is a valid profile: two races
\* and two Hispanic sub-races the baselines hold, and a race they hold nobody of.
IndexMatchRows ==
    { Good(HingeProfileCSVRecord(1, 1, "Met", 1, {"white_caucasian"})),
      Good(HingeProfileCSVRecord(1, 0, "None", 1, {"east_asian", "southeast_asian"})),
      Good(HingeProfileCSVRecord(1, 1, "You", 1, {"hispanic_latino", "black_african_descent"})),
      Good(HingeProfileCSVRecord(1, 0, "You", 1, {"hispanic_latino"})),
      Good(HingeProfileCSVRecord(1, 1, "Them", 1, {"pacific_islander"})) }

-----------------------------------------------------------------------------
(* run_analysis.                                                           *)

SAMPLE_CUTOFF == 2

\* println!: one entry of standard output; n is the number the message
\* carries (a line number, a total, the cutoff), 0 when it carries none.
Emit(o, msg, n) == Append(o, [msg |-> msg, n |-> n])

ZeroTally ==
    [ i |-> 0,
      no_convo_count |-> 0,
      no_convo_attempted_count |-> 0,
      no_convo_you_failed_count |-> 0,
      no_convo_they_failed_count |-> 0,
      convo_started_count |-> 0,
      convo_started_you_failed_count |-> 0,
      convo_started_they_failed_count |-> 0,
      you_met_count |-> 0 ]

Init ==
    /\ pc = "open_demographics"
    /\ status = "running"
    /\ out = << >>
    /\ line = 0
    /\ record = << >>
    /\ race_weights = [r \in RaceSet |-> FZero]
    /\ hispanic_race_weights = [r \in HispanicRaceSet |-> FZero]
    /\ profiles = << >>
    /\ race_counts = << >>
    /\ hispanic_race_counts = << >>
    /\ racial_preferences = << >>
    /\ tally = ZeroTally
    /\ metrics = << >>
    /\ arg = << >>
    /\ ret = << >>

\* main: run_analysis returned Err(err).
ExitErr(err) ==
    /\ pc' = "exit"
    /\ status' = err
    /\ out' = Emit(out, "error running example", 0)

\* A panic unwinds out of run_analysis and main.
Panic(msg) ==
    /\ pc' = "exit"
    /\ status' = msg

\* csv::Reader::from_path(..)?: the file opens or the run returns the error.
OpenFile(here, path, next) ==
    /\ pc = here
    /\ \E opens \in BOOLEAN :
          IF opens
          THEN /\ pc' = next
               /\ UNCHANGED << status, out >>
          ELSE ExitErr(path)
    /\ line' = 0
    /\ record' = << >>
    /\ UNCHANGED << race_weights, hispanic_race_weights, profiles, race_counts,
                    hispanic_race_counts, racial_preferences, tally, metrics,
                    arg, ret >>

OpenDemographics ==
    OpenFile("open_demographics", "Err(demographics.csv)", "demographics")

\* The column of demographics.csv summed into each race.
DemographicsColumn ==
    [ WhiteCaucasian |-> "white_alone",
      BlackAfrican |-> "black_african_american_alone",
      NativeAmerican |-> "american_indian_alaska_native_alone",
      Asian |-> "asian_alone",
      PacificIslander |-> "native_hawaiian_pacific_islander_alone",
      Multiracial |-> "two_or_more_races",
      Hispanic |-> "hispanic_latino",
      Other |-> "some_other_race_alone" ]

\* The column of hispanic_demographics.csv summed into each race.
HispanicDemographicsColumn ==
    [ WhiteCaucasian |-> "white_hispanic",
      BlackAfrican |-> "black_african_american_hispanic",
      NativeAmerican |-> "american_indian_alaska_native_hispanic",
      Asian |-> "asian_hispanic",
      PacificIslander |-> "native_hawaiian_pacific_islander_hispanic",
      Multiracial |-> "two_or_more_races_hispanic",
      Other |-> "some_other_race_hispanic" ]

\* One pass of a `for record in ...` loop over a baseline file: every
\* entry(race).and_modify(|count| *count += column as f64).
AddRecord(weights, column, v) ==
    [r \in DOMAIN weights |-> FAdd(weights[r], FInt(v[column[r]]))]

\* The reader of demographics.csv yields a row; filter_map(Result::ok) drops
\* a row that did not deserialize, the loop body adds the others.
ReadDemographicsRow ==
    /\ pc = "demographics"
    /\ line < MaxDemoRows
    /\ \E row \in DemographicsRows :
          /\ record' = << row >>
          /\ race_weights' =
                IF row.ok THEN AddRecord(race_weights, DemographicsColumn, row.v)
                ELSE race_weights
    /\ line' = line + 1
    /\ UNCHANGED << pc, status, out, hispanic_race_weights, profiles,
                    race_counts, hispanic_race_counts, racial_preferences,
                    tally, metrics, arg, ret >>

\* values_mut().for_each(|weight| *weight /= total)
Normalised(weights, keys) ==
    [r \in DOMAIN weights |-> FDiv(weights[r], FSumMap(weights, keys))]

HispanicRaces == SelectSeq(Races, LAMBDA r : r # "Hispanic")

\* demographics.csv is exhausted: the weights are divided by their sum and printed.
NormaliseRaceWeights ==
    /\ pc = "demographics"
    /\ race_weights' = Normalised(race_weights, Races)
    /\ out' = Emit(out, "Race Weights", 0)
    /\ pc' = "open_hispanic_demographics"
    /\ record' = << >>
    /\ UNCHANGED << status, line, hispanic_race_weights, profiles, race_counts,
                    hispanic_race_counts, racial_preferences, tally, metrics,
                    arg, ret >>

OpenHispanicDemographics ==
    OpenFile("open_hispanic_demographics", "Err(hispanic_demographics.csv)",
             "hispanic_demographics")

ReadHispanicDemographicsRow ==
    /\ pc = "hispanic_demographics"
    /\ line < MaxDemoRows
    /\ \E row \in HispanicDemographicsRows :
          /\ record' = << row >>
          /\ hispanic_race_weights' =
                IF row.ok
                THEN AddRecord(hispanic_race_weights, HispanicDemographicsColumn, row.v)
                ELSE hispanic_race_weights
    /\ line' = line + 1
    /\ UNCHANGED << pc, status, out, race_weights, profiles, race_counts,
                    hispanic_race_counts, racial_preferences, tally, metrics,
                    arg, ret >>

NormaliseHispanicRaceWeights ==
    /\ pc = "hispanic_demographics"
    /\ hispanic_race_weights' = Normalised(hispanic_race_weights, HispanicRaces)
    /\ out' = Emit(out, "Hispanic Race Weights", 0)
    /\ pc' = "open_matches"
    /\ record' = << >>
    /\ UNCHANGED << status, line, race_weights, profiles, race_counts,
                    hispanic_race_counts, racial_preferences, tally, metrics,
                    arg, ret >>

OpenMatches == OpenFile("open_matches", "Err(matches.csv)", "matches")

\* The profiles pipeline on one row: line_number = i + 2; a row that did not
\* deserialize, or that HingeProfile::try_from rejects, is printed and
\* dropped; the others are collected.
ReadMatchRowFrom(rows, max) ==
    /\ pc = "matches"
    /\ line < max
    /\ \E row \in rows :
          LET line_number == line + 2
              profile == HingeProfileTryFrom(row.v)
          IN  /\ record' = << row >>
              /\ out' = IF ~row.ok
                        THEN Emit(out, "error reading record on line", line_number)
                        ELSE IF ~profile.ok
                        THEN Emit(out, "error converting record to profile",
                                  line_number)
                        ELSE out
              /\ profiles' = IF row.ok /\ profile.ok
                             THEN Append(profiles, profile.profile)
                             ELSE profiles
    /\ line' = line + 1
    /\ UNCHANGED << pc, status, race_weights, hispanic_race_weights,
                    race_counts, hispanic_race_counts, racial_preferences,
                    tally, metrics, arg, ret >>

ReadMatchRow == ReadMatchRowFrom(MatchRows, MaxMatchRows)

ReadIndexMatchRow == ReadMatchRowFrom(IndexMatchRows, MaxIndexRows)

-----------------------------------------------------------------------------
(* Aggregation and the racial preference index.                            *)

IsSome(r) == r # "None"

\* Race::aggregate: every entry of Race::entries() starts at 0 and each race
\* of the iterator adds one.
Aggregate(races) ==
    [r \in RaceSet |-> Cardinality({i \in 1..Len(races) : races[i] = r})]

\* profiles.iter().filter_map(|profile| profile.race)
ProfileRaces(ps) == SelectSeq([i \in 1..Len(ps) |-> ps[i].race], IsSome)

CarriesHispanic(profile) == HispanicFilter(profile.ethnicity)

\* The iterator hispanic_race_counts is aggregated from: filter, map, filter_map.
HispanicProfileRaces(ps) ==
    LET hs == SelectSeq(ps, CarriesHispanic) IN
    SelectSeq([i \in 1..Len(hs) |-> HispanicSubRace(hs[i].ethnicity)], IsSome)

\* HashMap::remove(&Race::Hispanic)
RemoveHispanic(counts) == [r \in DOMAIN counts \ {"Hispanic"} |-> counts[r]]

\* profiles with a race or the HISPANIC_LATINO flag
WithBackgroundInfo(ps) ==
    Cardinality({i \in 1..Len(ps) : ps[i].race # "None" \/ CarriesHispanic(ps[i])})

\* matches.csv is exhausted: the profiles are collected and counted by race,
\* the two totals are printed and Hispanic is removed from both maps.
AggregateRaces ==
    /\ pc = "matches"
    /\ race_counts' = RemoveHispanic(Aggregate(ProfileRaces(profiles)))
    /\ hispanic_race_counts' = RemoveHispanic(Aggregate(HispanicProfileRaces(profiles)))
    /\ out' = Emit(Emit(out, "Total Profiles", Len(profiles)),
                   "Total Profiles with Background Info", WithBackgroundInfo(profiles))
    /\ pc' = "preferences"
    /\ record' = << >>
    /\ UNCHANGED << status, line, race_weights, hispanic_race_weights, profiles,
                    racial_preferences, tally, metrics, arg, ret >>

\* The weight pushed for a race of race_counts.
RaceWeight(race, count) ==
    IF count < SAMPLE_CUTOFF THEN FZero
    ELSE FDiv(FInt(count), race_weights[race])

\* HispanicRaceWeight divided by the sub-race's share alone.
HispanicRaceWeightNoHispanicShare(race, count) ==
    IF count < SAMPLE_CUTOFF THEN FZero
    ELSE FDiv(FInt(count), hispanic_race_weights[race])

\* The weight pushed for a race of hispanic_race_counts.
HispanicRaceWeight(race, count) ==
    IF count < SAMPLE_CUTOFF THEN FZero
    ELSE FDiv(FInt(count),
              FMul(race_weights["Hispanic"], hispanic_race_weights[race]))

RacialPreference(race, hispanic, weight, count) ==
    [race |-> race, hispanic |-> hispanic, weight |-> weight, count |-> count]

Reverse(s) == [i \in 1..Len(s) |-> s[Len(s) + 1 - i]]

\* The orders in which a HashMap of the seven races is iterated.  The order
\* is unspecified; the model lets each map take the order of Race::entries()
\* or its reverse.
IterationOrders == { HispanicRaces, Reverse(HispanicRaces) }

\* The two loops that push one RacialPreference per race of each map.
PreferencesIn(order, hispanic_order) ==
    [i \in 1..Len(order) |->
        RacialPreference(order[i], FALSE,
                         RaceWeight(order[i], race_counts[order[i]]),
                         race_counts[order[i]])]
    \o
    [i \in 1..Len(hispanic_order) |->
        RacialPreference(hispanic_order[i], TRUE,
                         HispanicRaceWeight(hispanic_order[i],
                                            hispanic_race_counts[hispanic_order[i]]),
                         hispanic_race_counts[hispanic_order[i]])]

\* racial_preferences.iter().map(|preference| preference.weight).sum::<f64>()
TotalWeight(prefs) == FSum([i \in 1..Len(prefs) |-> prefs[i].weight])

\* iter_mut().for_each(|preference| preference.weight /= total)
NormalisedPreferences(prefs) ==
    LET racial_preferences_total_weight == TotalWeight(prefs) IN
    [i \in 1..Len(prefs) |->
        [prefs[i] EXCEPT !.weight = FDiv(prefs[i].weight,
                                         racial_preferences_total_weight)]]

\* The comparator of sort_by is b.weight.partial_cmp(&a.weight).expect(..): it
\* panics on a NaN.  A slice of two or more elements has every element
\* compared at least once, so the sort panics exactly when a weight is NaN.
SortPanics(prefs) ==
    /\ Len(prefs) >= 2
    /\ \E i \in 1..Len(prefs) : IsNaN(prefs[i].weight)

\* x placed into the sorted sequence s: after every element that does not
\* compare Greater to it under the comparator (sort_by is stable).
RECURSIVE InsertByWeight(_, _)
InsertByWeight(s, x) ==
    IF s = << >> THEN << x >>
    ELSE IF PartialCmp(x.weight, Head(s).weight) = "Greater"
    THEN << x >> \o s
    ELSE << Head(s) >> \o InsertByWeight(Tail(s), x)

RECURSIVE SortedFrom(_, _, _)
SortedFrom(prefs, i, acc) ==
    IF i > Len(prefs) THEN acc
    ELSE SortedFrom(prefs, i + 1, InsertByWeight(acc, prefs[i]))

\* sort_by: descending weight, equal weights in their pushed order.
SortedByWeight(prefs) == SortedFrom(prefs, 1, << >>)

\* One RacialPreference is pushed per race of each map, the weights are
\* divided by their sum and the list is sorted; the sort panics, or the table
\* is printed.
RankPreferences ==
    /\ pc = "preferences"
    /\ \E order \in IterationOrders, hispanic_order \in IterationOrders :
       LET normalised == NormalisedPreferences(PreferencesIn(order, hispanic_order)) IN
       IF SortPanics(normalised)
       THEN /\ Panic("panic(Bad comparison in racial preferences)")
            /\ racial_preferences' = normalised
            /\ out' = out
       ELSE /\ racial_preferences' = SortedByWeight(normalised)
            /\ out' = Emit(out, "Race Preference Index", SAMPLE_CUTOFF)
            /\ pc' = "funnel"
            /\ status' = status
    /\ UNCHANGED << line, record, race_weights, hispanic_race_weights, profiles,
                    race_counts, hispanic_race_counts, tally, metrics, arg, ret >>

-----------------------------------------------------------------------------
(* The conversation funnel.                                                *)

\* TallyStep with a silent match counted as attempted by you.
TallyStepNoneAsYou(t, profile) ==
    IF profile.convo
    THEN CASE profile.who_last_replied = "You" ->
                [t EXCEPT !.i = @ + 1, !.convo_started_count = @ + 1,
                          !.convo_started_you_failed_count = @ + 1]
           [] profile.who_last_replied = "Them" ->
                [t EXCEPT !.i = @ + 1, !.convo_started_count = @ + 1,
                          !.convo_started_they_failed_count = @ + 1]
           [] profile.who_last_replied = "Met" ->
                [t EXCEPT !.i = @ + 1, !.convo_started_count = @ + 1,
                          !.you_met_count = @ + 1]
           [] profile.who_last_replied = "None" ->
                [t EXCEPT !.i = -1]
    ELSE CASE profile.who_last_replied \in {"You", "None"} ->
                [t EXCEPT !.i = @ + 1, !.no_convo_count = @ + 1,
                          !.no_convo_you_failed_count = @ + 1]
           [] profile.who_last_replied = "Them" ->
                [t EXCEPT !.i = @ + 1, !.no_convo_count = @ + 1,
                          !.no_convo_they_failed_count = @ + 1]
           [] profile.who_last_replied = "Met" ->
                [t EXCEPT !.i = -1]

\* One pass of `for profile in profiles.iter()`: the counters after the
\* profile, or the message of the unreachable!() it runs into.
TallyStep(t, profile) ==
    IF profile.convo
    THEN CASE profile.who_last_replied = "You" ->
                [t EXCEPT !.i = @ + 1, !.convo_started_count = @ + 1,
                          !.convo_started_you_failed_count = @ + 1]
           [] profile.who_last_replied = "Them" ->
                [t EXCEPT !.i = @ + 1, !.convo_started_count = @ + 1,
                          !.convo_started_they_failed_count = @ + 1]
           [] profile.who_last_replied = "Met" ->
                [t EXCEPT !.i = @ + 1, !.convo_started_count = @ + 1,
                          !.you_met_count = @ + 1]
           [] profile.who_last_replied = "None" ->
                [t EXCEPT !.i = -1]
    ELSE CASE profile.who_last_replied = "You" ->
                [t EXCEPT !.i = @ + 1, !.no_convo_count = @ + 1,
                          !.no_convo_you_failed_count = @ + 1]
           [] profile.who_last_replied = "Them" ->
                [t EXCEPT !.i = @ + 1, !.no_convo_count = @ + 1,
                          !.no_convo_they_failed_count = @ + 1]
           [] profile.who_last_replied = "None" ->
                [t EXCEPT !.i = @ + 1, !.no_convo_count = @ + 1,
                          !.no_convo_attempted_count = @ + 1]
           [] profile.who_last_replied = "Met" ->
                [t EXCEPT !.i = -1]

TallyProfile ==
    /\ pc = "funnel"
    /\ tally.i < Len(profiles)
    /\ LET profile == profiles[tally.i + 1]
           t == TallyStep(tally, profile)
       IN  IF t.i = -1
           THEN /\ Panic(IF profile.convo
                         THEN "panic(None should not be in convo)"
                         ELSE "panic(Met should not be in no convo)")
                /\ tally' = tally
           ELSE /\ tally' = t
                /\ UNCHANGED << pc, status >>
    /\ UNCHANGED << out, line, record, race_weights, hispanic_race_weights,
                    profiles, race_counts, hispanic_race_counts,
                    racial_preferences, metrics, arg, ret >>

\* The scores and the printed percentages, from the counters.
MetricsOf(t, total_profiles, convo_you_attempted_count) ==
    [ convo_you_attempted_count |-> convo_you_attempted_count,
      conversation_interested_score |->
          FDiv(FInt(convo_you_attempted_count), FInt(total_profiles)),
      conversation_they_failed_score |->
          FDiv(FInt(t.no_convo_they_failed_count), FInt(total_profiles)),
      conversation_no_one_interested_score |->
          FDiv(FInt(t.no_convo_attempted_count), FInt(total_profiles)),
      conversation_starter_score |->
          FDiv(FInt(t.convo_started_count), FInt(convo_you_attempted_count)),
      conversation_starter_failed_score |->
          FDiv(FInt(t.no_convo_you_failed_count), FInt(convo_you_attempted_count)),
      conversation_to_them_ghosting_score |->
          FDiv(FInt(t.convo_started_you_failed_count), FInt(t.convo_started_count)),
      conversation_to_you_ghosting_score |->
          FDiv(FInt(t.convo_started_they_failed_count), FInt(t.convo_started_count)),
      conversation_to_date_score |->
          FDiv(FInt(t.you_met_count), FInt(t.convo_started_count)),
      you_ghost |->
          FDiv(FInt(t.no_convo_they_failed_count + t.convo_started_they_failed_count),
               FInt(total_profiles)),
      they_ghost |->
          FDiv(FInt(t.no_convo_you_failed_count + t.convo_started_you_failed_count),
               FInt(total_profiles)),
      dates |-> FDiv(FInt(t.you_met_count), FInt(total_profiles)),
      date_conversion |->
          FMul(FDiv(FInt(t.convo_started_count), FInt(convo_you_attempted_count)),
               FDiv(FInt(t.you_met_count), FInt(t.convo_started_count))) ]

\* The loop is over: convo_you_attempted_count is a usize subtraction (a
\* build with overflow checks panics below zero, one without wraps, and the
\* model follows the wrapped run no further), then the scores are computed
\* and the three blocks of the report are printed; run_analysis returns Ok.
ComputeMetrics ==
    /\ pc = "funnel"
    /\ tally.i = Len(profiles)
    /\ LET total_profiles == Len(profiles)
           attempted == total_profiles - tally.no_convo_attempted_count
                                       - tally.no_convo_they_failed_count
       IN  IF attempted < 0
           THEN /\ \E how \in {"panic(attempt to subtract with overflow)",
                               "wrapped"} : Panic(how)
                /\ UNCHANGED << out, metrics >>
           ELSE /\ metrics' = << MetricsOf(tally, total_profiles, attempted) >>
                /\ out' = Emit(Emit(Emit(out, "Ghosting Metrics", 0),
                                    "Conversation Success Metrics", 0),
                               "Date Conversion Rate", 0)
                /\ pc' = "exit"
                /\ status' = "Ok"
    /\ UNCHANGED << line, record, race_weights, hispanic_race_weights, profiles,
                    race_counts, hispanic_race_counts, racial_preferences,
                    tally, arg, ret >>

Next ==
    \/ OpenDemographics
    \/ ReadDemographicsRow
    \/ NormaliseRaceWeights
    \/ OpenHispanicDemographics
    \/ ReadHispanicDemographicsRow
    \/ NormaliseHispanicRaceWeights
    \/ OpenMatches
    \/ ReadMatchRow
    \/ AggregateRaces
    \/ RankPreferences
    \/ TallyProfile
    \/ ComputeMetrics

Spec == Init /\ [][Next]_vars

\* run_analysis on a matches.csv of valid profiles.
NextIndex ==
    \/ OpenDemographics
    \/ ReadDemographicsRow
    \/ NormaliseRaceWeights
    \/ OpenHispanicDemographics
    \/ ReadHispanicDemographicsRow
    \/ NormaliseHispanicRaceWeights
    \/ OpenMatches
    \/ ReadIndexMatchRow
    \/ AggregateRaces
    \/ RankPreferences
    \/ TallyProfile
    \/ ComputeMetrics

SpecIndex == Init /\ [][NextIndex]_vars

-----------------------------------------------------------------------------
(* The conversions on their own: Race::try_from and the Hispanic sub-race   *)
(* pipeline applied to every 16-bit mask, HingeProfile::try_from applied   *)
(* to every record of the input sets below.                                *)

Unset == "unset"

\* The variables of run_analysis, which these specifications leave alone.
RunIdle ==
    /\ status = "running"
    /\ out = << >>
    /\ line = 0
    /\ record = << >>
    /\ race_weights = [r \in RaceSet |-> FZero]
    /\ hispanic_race_weights = [r \in HispanicRaceSet |-> FZero]
    /\ profiles = << >>
    /\ race_counts = << >>
    /\ hispanic_race_counts = << >>
    /\ racial_preferences = << >>
    /\ tally = ZeroTally
    /\ metrics = << >>

RunVars ==
    << pc, status, out, line, record, race_weights, hispanic_race_weights,
       profiles, race_counts, hispanic_race_counts, racial_preferences,
       tally, metrics >>

InitRace ==
    /\ pc = "race"
    /\ RunIdle
    /\ arg \in 0..AllBits
    /\ ret = [race |-> Unset, sub_race |-> Unset]

\* Race::try_from(Ethnicities(arg))
ClassifyRace ==
    /\ pc = "race"
    /\ ret.race = Unset
    /\ ret' = [ret EXCEPT !.race = RaceTryFrom(arg)]
    /\ UNCHANGED << arg, RunVars >>

\* The filter, map and filter_map of hispanic_race_counts on a profile whose
\* ethnicity is arg.
ClassifySubRace ==
    /\ pc = "race"
    /\ ret.sub_race = Unset
    /\ HispanicFilter(arg)
    /\ ret' = [ret EXCEPT !.sub_race = HispanicSubRace(arg)]
    /\ UNCHANGED << arg, RunVars >>

NextRace == ClassifyRace \/ ClassifySubRace

SpecRace == InitRace /\ [][NextRace]_vars

\* Values of the u8 columns matched, convo and specified.
ByteValues == {0, 1, 2}

\* Values of the last_reply column: the four replies and another string.
ReplyValues == WhoLastReplied \cup {"Maybe"}

FlagFieldSet == { EthnicityFields[i] : i \in 1..Len(EthnicityFields) }

InitProfile ==
    /\ pc = "profile"
    /\ RunIdle
    /\ arg \in { HingeProfileCSVRecord(1, convo, last_reply, 1, flags) :
                    convo \in ByteValues, last_reply \in ReplyValues,
                    flags \in SUBSET FlagFieldSet }
    /\ ret = << >>

\* HingeProfile::try_from(arg)
ConvertProfile ==
    /\ pc = "profile"
    /\ ret = << >>
    /\ ret' = << HingeProfileTryFrom(arg) >>
    /\ UNCHANGED << arg, RunVars >>

NextProfile == ConvertProfile

SpecProfile == InitProfile /\ [][NextProfile]_vars

-----------------------------------------------------------------------------
(* The classifier's policy over sets of flags, as the ordered rule list.   *)

\* The named flags a mask holds, read off its binary digits.
FlagsOf(bits) ==
    { EthnicityFields[i] :
        i \in { j \in 1..Len(EthnicityFields) :
                  (bits \div EthnicityFieldBit[j]) % 2 = 1 } }

\* The mask holds no bit other than the ten named flags (bits 9 to 14 are unnamed).
NamedFlagsOnly(bits) == (bits \div 512) % 64 = 0

SingleFlagRace ==
    [ native_american |-> "NativeAmerican",
      southeast_asian |-> "Asian",
      black_african_descent |-> "BlackAfrican",
      east_asian |-> "Asian",
      pacific_islander |-> "PacificIslander",
      south_asian |-> "Asian",
      white_caucasian |-> "WhiteCaucasian",
      hispanic_latino |-> "Hispanic",
      other |-> "Other" ]

AsianFlags == {"southeast_asian", "east_asian", "south_asian"}

RuleList(flags) ==
    LET rest == flags \ {"middle_eastern"} IN
    IF flags = {} THEN ErrEmpty
    ELSE IF rest = {} THEN ErrUnsupported
    ELSE IF Cardinality(rest) = 1 THEN SingleFlagRace[CHOOSE f \in rest : TRUE]
    ELSE IF rest \subseteq AsianFlags THEN "Asian"
    ELSE IF "hispanic_latino" \in rest THEN "Hispanic"
    ELSE "Multiracial"

\* C1: for every set of the ten named flags, Race::try_from returns the
\* outcome of the ordered rule list (empty -> EmptyEthnicity, only
\* MiddleEastern -> UnsupportedOnly, a single flag -> its race, Asian flags ->
\* Asian, any set with HispanicLatino -> Hispanic, else Multiracial), which is
\* a Race for every non-empty set that is not only MiddleEastern.
C1_RaceRuleList ==
    (pc = "race" /\ ret.race # Unset /\ NamedFlagsOnly(arg)) =>
        /\ ret.race = RuleList(FlagsOf(arg))
        /\ (FlagsOf(arg) \notin {{}, {"middle_eastern"}} => ret.race \in RaceSet)

C1_Witness ==
    /\ pc = "race"
    /\ FlagsOf(arg) = {"hispanic_latino", "white_caucasian", "middle_eastern"}
    /\ NamedFlagsOnly(arg)
    /\ ret.race = "Hispanic"

\* C2: for every set of named flags that contains HispanicLatino, the
\* Hispanic sub-race is Other when nothing remains once HispanicLatino is
\* stripped, otherwise the rule list's outcome on the remainder (no race when
\* that is an error), and it is never Hispanic.
C2_HispanicSubRace ==
    (pc = "race" /\ ret.sub_race # Unset /\ NamedFlagsOnly(arg)) =>
        LET rest == FlagsOf(arg) \ {"hispanic_latino"} IN
        /\ "hispanic_latino" \in FlagsOf(arg)
        /\ ret.sub_race = IF rest = {} THEN "Other" ELSE ResultOk(RuleList(rest))
        /\ ret.sub_race # "Hispanic"

C2_Witness ==
    /\ pc = "race"
    /\ FlagsOf(arg) = {"hispanic_latino", "black_african_descent"}
    /\ NamedFlagsOnly(arg)
    /\ ret.sub_race = "BlackAfrican"

\* C3: a record whose last_reply is one of You, Them, Met, None fails
\* HingeProfile::try_from exactly when it is Met with convo = 0 or None with
\* convo # 0, whatever its ethnicity columns are.
C3_ProfileValidation ==
    (pc = "profile" /\ ret # << >> /\ arg.last_reply \in WhoLastReplied) =>
        (~ret[1].ok <=>
            \/ (arg.last_reply = "Met" /\ arg.convo = 0)
            \/ (arg.last_reply = "None" /\ arg.convo # 0))

C3_Witness ==
    /\ pc = "profile"
    /\ ret # << >>
    /\ ~ret[1].ok
    /\ arg.last_reply = "None"
    /\ arg.convo = 2
    /\ arg.hispanic_latino = 1

-----------------------------------------------------------------------------
(* Properties of run_analysis.                                             *)

Printed(msg) == \E i \in 1..Len(out) : out[i].msg = msg

TablePrinted == Printed("Race Preference Index")

\* The blocks of the report.
ReportBlocks ==
    { "Race Weights", "Hispanic Race Weights", "Total Profiles",
      "Total Profiles with Background Info", "Race Preference Index",
      "Ghosting Metrics", "Conversation Success Metrics", "Date Conversion Rate" }

Attempted ==
    Len(profiles) - tally.no_convo_attempted_count - tally.no_convo_they_failed_count

\* The funnel loop ran over every profile and run_analysis is over.
FunnelOver == pc = "exit" /\ TablePrinted /\ tally.i = Len(profiles)

\* C4: when total, convo_you_attempted or convo_started is zero, the funnel
\* computation ends in an InsufficientDataError: the run reports it, does not
\* crash and produces no ratio.
C4_InsufficientData ==
    (FunnelOver /\ (Len(profiles) = 0 \/ Attempted = 0 \/ tally.convo_started_count = 0))
        => /\ status = "Err(InsufficientDataError)"
           /\ metrics = << >>
           /\ ~Printed("Ghosting Metrics")

\* RankPreferences has run.
Ranked == racial_preferences # << >>

AllBelowCutoff ==
    /\ \A r \in DOMAIN race_counts : race_counts[r] < SAMPLE_CUTOFF
    /\ \A r \in DOMAIN hispanic_race_counts : hispanic_race_counts[r] < SAMPLE_CUTOFF

\* C5: when every race count and every Hispanic sub-race count is below the
\* cutoff, the preference index ends in a DegenerateDistribution error the run
\* reports: no panic, and no ranked list is printed.
C5_DegenerateDistribution ==
    (Ranked /\ AllBelowCutoff)
        => /\ status = "Err(DegenerateDistribution)"
           /\ ~TablePrinted

\* C6: when a baseline file is exhausted with no record summed or a summed
\* population of zero, the run aborts with EmptyBaseline and standard output
\* holds no block of the report.
C6_EmptyBaseline ==
    [][ ( \/ /\ pc = "demographics" /\ pc' # pc
             /\ FSumMap(race_weights, Races) = FZero
          \/ /\ pc = "hispanic_demographics" /\ pc' # pc
             /\ FSumMap(hispanic_race_weights, HispanicRaces) = FZero )
        => /\ pc' = "exit"
           /\ status' = "Err(EmptyBaseline)"
           /\ \A i \in 1..Len(out') : out'[i].msg \notin ReportBlocks ]_vars

\* What one entry's count is divided by: its baseline share.
BaselineShare(e) ==
    IF e.hispanic
    THEN FMul(race_weights["Hispanic"], hispanic_race_weights[e.race])
    ELSE race_weights[e.race]

\* C7: in the printed preference list every entry carries its race's count,
\* an entry whose count is below the cutoff has weight exactly 0, and the
\* entries at or above the cutoff have positive finite weights in the
\* proportion of count / baseline share.
C7_PreferenceWeights ==
    TablePrinted =>
        \A i \in 1..Len(racial_preferences) :
            LET e == racial_preferences[i] IN
            /\ e.count = IF e.hispanic THEN hispanic_race_counts[e.race]
                         ELSE race_counts[e.race]
            /\ e.count < SAMPLE_CUTOFF => e.weight = FZero
            /\ e.count >= SAMPLE_CUTOFF =>
                  /\ IsFinite(e.weight) /\ e.weight.n > 0
                  /\ \A j \in 1..Len(racial_preferences) :
                        LET f == racial_preferences[j] IN
                        f.count >= SAMPLE_CUTOFF =>
                            FMul(e.weight, FDiv(FInt(f.count), BaselineShare(f)))
                              = FMul(f.weight, FDiv(FInt(e.count), BaselineShare(e)))

C7_Witness ==
    /\ TablePrinted
    /\ \E i, j \in 1..Len(racial_preferences) :
          /\ racial_preferences[i].hispanic
          /\ ~racial_preferences[j].hispanic
          /\ racial_preferences[i].count >= SAMPLE_CUTOFF
          /\ racial_preferences[j].count >= SAMPLE_CUTOFF
          /\ racial_preferences[i].weight # racial_preferences[j].weight

\* The set of flags is empty or only MiddleEastern.
Unclassifiable(flags) == flags \in {{}, {"middle_eastern"}}

\* The indicator columns a record sets.
RecordFlags(v) == { f \in FlagFieldSet : v[f] # 0 }

\* The record satisfies the two consistency rules of a profile.
ValidRecord(v) ==
    /\ v.last_reply \in WhoLastReplied
    /\ ~(v.last_reply = "Met" /\ v.convo = 0)
    /\ ~(v.last_reply = "None" /\ v.convo # 0)

\* The Hispanic sub-race of a set of flags, by the rule list.
SubRaceRule(flags) ==
    IF flags \ {"hispanic_latino"} = {} THEN "Other"
    ELSE ResultOk(RuleList(flags \ {"hispanic_latino"}))

BucketCounters ==
    { "no_convo_attempted_count", "no_convo_you_failed_count",
      "no_convo_they_failed_count", "convo_started_you_failed_count",
      "convo_started_they_failed_count", "you_met_count" }

BucketSum(t) ==
    t.no_convo_attempted_count + t.no_convo_you_failed_count
      + t.no_convo_they_failed_count + t.convo_started_you_failed_count
      + t.convo_started_they_failed_count + t.you_met_count

\* Every unclassifiable profile has no race, the race counts and sub-race
\* counts are those of the classifiable profiles alone, and the funnel of a
\* finished run has counted every profile.
C8_Counts ==
    /\ \A i \in 1..Len(profiles) :
          Unclassifiable(FlagsOf(profiles[i].ethnicity)) => profiles[i].race = "None"
    /\ DOMAIN race_counts # {} =>
          \A r \in DOMAIN race_counts :
             /\ race_counts[r] =
                   Cardinality({ i \in 1..Len(profiles) :
                      /\ ~Unclassifiable(FlagsOf(profiles[i].ethnicity))
                      /\ RuleList(FlagsOf(profiles[i].ethnicity)) = r })
             /\ hispanic_race_counts[r] =
                   Cardinality({ i \in 1..Len(profiles) :
                      /\ ~Unclassifiable(FlagsOf(profiles[i].ethnicity))
                      /\ "hispanic_latino" \in FlagsOf(profiles[i].ethnicity)
                      /\ SubRaceRule(FlagsOf(profiles[i].ethnicity)) = r })
    /\ (FunnelOver /\ status = "Ok") =>
          /\ BucketSum(tally) = Len(profiles)
          /\ \E i \in 1..Len(out) :
                out[i].msg = "Total Profiles" /\ out[i].n = Len(profiles)

\* A valid record with unclassifiable flags is appended to profiles with no
\* race, and the funnel loop's pass over a profile with no race adds one to
\* exactly one bucket and leaves the race counts alone.
C8_Step ==
    /\ ( /\ pc = "matches" /\ line' = line + 1
         /\ record'[1].ok /\ ValidRecord(record'[1].v)
         /\ Unclassifiable(RecordFlags(record'[1].v)) )
       => /\ Len(profiles') = Len(profiles) + 1
          /\ profiles'[Len(profiles')].race = "None"
          /\ Unclassifiable(FlagsOf(profiles'[Len(profiles')].ethnicity))
    /\ ( /\ pc = "funnel" /\ tally.i < Len(profiles)
         /\ profiles[tally.i + 1].race = "None" )
       => /\ pc' = "funnel"
          /\ Cardinality({ b \in BucketCounters : tally'[b] = tally[b] + 1 }) = 1
          /\ Cardinality({ b \in BucketCounters : tally'[b] = tally[b] }) = 5
          /\ race_counts' = race_counts
          /\ hispanic_race_counts' = hispanic_race_counts

\* C8: a validated profile whose ethnicity is empty or only MiddleEastern is
\* kept with no race; it adds nothing to a race count or a Hispanic sub-race
\* count, and it is counted in the funnel total and in exactly one bucket.
C8_UnclassifiableProfile == []C8_Counts /\ [][C8_Step]_vars

C8_Witness ==
    /\ FunnelOver
    /\ status = "Ok"
    /\ Len(profiles) = 3
    /\ profiles[3].ethnicity = MIDDLE_EASTERN
    /\ profiles[3].race = "None"
    /\ race_counts["WhiteCaucasian"] = 2
    /\ tally.no_convo_they_failed_count = 1
    /\ BucketSum(tally) = 3

\* The row the reader yielded is one the pipeline drops: it did not
\* deserialize, or it is a match record that is no valid profile.
DroppedRow(row, file) ==
    \/ ~row.ok
    \/ file = "matches" /\ ~ValidRecord(row.v)

\* C9: in each of the three files, a malformed row or a row that fails the
\* profile's validation is skipped and logged with its line number (the
\* header is line 1); it changes no sum and no profile, and the file is read on.
C9_BadRowReported ==
    [][ ( /\ pc \in {"demographics", "hispanic_demographics", "matches"}
          /\ line' = line + 1
          /\ DroppedRow(record'[1], pc) )
        => /\ pc' = pc
           /\ race_weights' = race_weights
           /\ hispanic_race_weights' = hispanic_race_weights
           /\ profiles' = profiles
           /\ Len(out') = Len(out) + 1
           /\ out'[Len(out')].n = line + 2 ]_vars

\* The funnel bucket of a profile, by (convo, who_last_replied).
BucketOf ==
    [ no_convo_attempted_count |-> << FALSE, "None" >>,
      no_convo_you_failed_count |-> << FALSE, "You" >>,
      no_convo_they_failed_count |-> << FALSE, "Them" >>,
      convo_started_you_failed_count |-> << TRUE, "You" >>,
      convo_started_they_failed_count |-> << TRUE, "Them" >>,
      you_met_count |-> << TRUE, "Met" >> ]

\* C10: the six buckets partition the profiles tallied so far, convo_started
\* is the sum of its three buckets, and convo_you_attempted = total -
\* no_convo_attempted - no_convo_they_failed never goes below zero: it is
\* no_convo_you_failed + convo_started.
C10_FunnelPartition ==
    (pc = "funnel" \/ (pc = "exit" /\ TablePrinted)) =>
        /\ \A b \in BucketCounters :
              tally[b] = Cardinality({ i \in 1..tally.i :
                 << profiles[i].convo, profiles[i].who_last_replied >> = BucketOf[b] })
        /\ BucketSum(tally) = tally.i
        /\ tally.convo_started_count =
              tally.convo_started_you_failed_count
                + tally.convo_started_they_failed_count + tally.you_met_count
        /\ status \notin {"panic(attempt to subtract with overflow)", "wrapped"}
        /\ status = "Ok" =>
              /\ tally.i = Len(profiles)
              /\ metrics[1].convo_you_attempted_count = Attempted
              /\ Attempted >= 0
              /\ Attempted = tally.no_convo_you_failed_count + tally.convo_started_count

C10_Witness ==
    /\ status = "Ok"
    /\ Len(profiles) = 3
    /\ tally.no_convo_attempted_count = 1
    /\ tally.no_convo_they_failed_count = 1
    /\ tally.you_met_count = 1
    /\ metrics[1].convo_you_attempted_count = 1

\* The two messages of the unreachable!() arms of the funnel loop.
UnreachablePanics ==
    { "panic(None should not be in convo)",
      "panic(Met should not be in no convo)" }

\* C11: every collected profile has convo = true when who_last_replied is Met
\* and convo = false when it is None, so the funnel loop never meets
\* (convo = false, Met) or (convo = true, None) and neither unreachable!()
\* arm of the tally runs.
C11_TallyArmsUnreachable ==
    /\ \A i \in 1..Len(profiles) :
          /\ profiles[i].who_last_replied = "Met" => profiles[i].convo
          /\ profiles[i].who_last_replied = "None" => ~profiles[i].convo
    /\ status \notin UnreachablePanics
    /\ tally.i # -1

C11_Witness ==
    /\ FunnelOver
    /\ status = "Ok"
    /\ line = 3
    /\ Len(profiles) = 2
    /\ Printed("error converting record to profile")
    /\ tally.you_met_count = 1
    /\ tally.no_convo_attempted_count = 1

\* C12: for every 16-bit mask, when Race::try_from returns Multiracial the
\* mask without MiddleEastern holds two named flags whose single-flag races
\* differ, i.e. the fall-through arm is reached only by sets that span two
\* disjoint groupings.
C12_MultiracialSpansGroupings ==
    (pc = "race" /\ ret.race = "Multiracial") =>
        \E f, g \in FlagsOf(arg) \ {"middle_eastern"} :
            SingleFlagRace[f] # SingleFlagRace[g]

\* The profiles that carry the HispanicLatino flag.
HispanicFlagged ==
    { i \in 1..Len(profiles) : "hispanic_latino" \in FlagsOf(profiles[i].ethnicity) }

\* The sum of the counts of a map from races to counts.
CountSum(counts) ==
    Cardinality({ e \in (DOMAIN counts) \X (1..Len(profiles)) : e[2] <= counts[e[1]] })

\* C13: a collected profile carries the HispanicLatino flag exactly when its
\* race is Hispanic, and once the profiles are counted the Hispanic sub-race
\* counts sum to the number of such profiles: each of them adds one to exactly
\* one sub-race count.
C13_HispanicSubRaceCounts ==
    /\ \A i \in 1..Len(profiles) :
          i \in HispanicFlagged <=> profiles[i].race = "Hispanic"
    /\ DOMAIN hispanic_race_counts # {} =>
          CountSum(hispanic_race_counts) = Cardinality(HispanicFlagged)

====
